---- MODULE Spec2Model ----
(***************************************************************************)
(* State-machine model of src/12,5/src/script.js: a three.js scene with    *)
(* one 3D text mesh, 100 floating donuts, a lil-gui debug panel and a      *)
(* requestAnimationFrame render loop.                                      *)
(*                                                                         *)
(* Numbers.  JavaScript doubles are modelled in fixed point:               *)
(*   Math.random()  = k / RandomDenominator,  k \in 0 .. RandomDenominator-1*)
(*   a length       = n / WorldUnit world units                            *)
(*   deltaTime      = n / 60 seconds (n "frame units"), so that the        *)
(*                    factor deltaTime * 60 of animate is the integer n    *)
(*   a velocity     = n / WorldUnit world units per frame unit             *)
(* A double carries a rounding error far below 1 / WorldUnit.  The only    *)
(* place where the program can observe it is the comparison with the       *)
(* boundary of a position whose fixed-point value lies exactly on it: the  *)
(* double may be on the boundary, inside it, or a rounding error beyond it.*)
(* That outcome is a nondeterministic choice (donut.rounding), the same    *)
(* for all axes that started from the same random position and velocity,   *)
(* since they go through the same arithmetic.                              *)
(* Strings are sequences of UTF-16 code units.                             *)
(***************************************************************************)
EXTENDS Integers, Sequences, FiniteSets

VARIABLES
    pc,            \* "script" | "fontLoading" | "running" | "fontFailed"
    textureLoad,   \* outcome of textureLoader.load: "none" | "ok" | "error" | "threw"
    matcapTexture, \* Null or the Texture object
    loadedFont,    \* Null or the Font
    textMesh,      \* Null or the text Mesh
    donutMeshes,   \* sequence of donut meshes
    scene,         \* children of the scene (object identities)
    config,        \* the GUI-controlled configuration object
    guiFolders,    \* gui.folders, a sequence of folder titles
    undisposed,    \* GPU resources created and not disposed, per kind
    builds,        \* number of setupSceneContent calls (identity of what each created)
    window,        \* the browser window: innerWidth, innerHeight, devicePixelRatio
    sizes,         \* the sizes object
    camera,        \* camera.aspect as <<numerator, denominator>>
    renderer,      \* renderer size, pixel ratio and number of render calls
    clock,         \* THREE.Clock: whether it has been started
    rng,           \* Math.random: the stream and the number of values taken from it
    rafPending,    \* a frame callback is scheduled
    alerts,        \* number of alert() calls
    console        \* sequence of console messages (by kind)

vars == <<pc, textureLoad, matcapTexture, loadedFont, textMesh, donutMeshes,
          scene, config, guiFolders, undisposed, builds, window, sizes, camera,
          renderer, clock, rng, rafPending, alerts, console>>

----------------------------------------------------------------------------
(* Bounds of the model *)

\* render calls after which the frame callback is no longer followed
MaxFrames == 4
\* re-invocations of setupSceneContent followed (specification SpecReinvoke)
MaxRebuilds == 1

\* resolution of the modelled Math.random: its values are k / RandomDenominator
RandomDenominator == 8
\* the streams of Math.random the model follows
Seeds == {2, 4}
\* frame intervals in frame units (1/60 s): one frame, and a tab that was hidden
Deltas == {1, 250}
\* colours a colour picker can deliver (the text starts white, the donuts rainbow)
Colors == {65280}
\* browser windows
Windows == {[innerWidth |-> 800, innerHeight |-> 600, devicePixelRatio |-> 1],
            [innerWidth |-> 1920, innerHeight |-> 1080, devicePixelRatio |-> 3]}
\* contents the text field can deliver: "", " ", no-break space + CR, " a"
Texts == {<<>>, <<32>>, <<160, 13>>, <<32, 97>>}

----------------------------------------------------------------------------
(* Values *)

Null == [type |-> "null"]

Abs(x) == IF x < 0 THEN -x ELSE x

Min(a, b) == IF a < b THEN a ELSE b

\* fixed point: position units per world unit
WorldUnit == 200 * RandomDenominator

\* the n-th value (n = 0, 1, ...) of Math.random in the stream `seed`, as a numerator
Rnd(seed, n) == ((n * n + seed * n + (n \div 9) * 3 + seed) \div 2) % RandomDenominator

\* (Math.random() - 0.5) in units of 1 / (2 * RandomDenominator)
Centered(k) == 2 * k - RandomDenominator

DonutCount == 100

Boundary == 10 * WorldUnit

DonutColors == <<16711680, 16753920, 16776960, 65280, 65535, 255, 9055202>>

\* '...'
Placeholder == <<46, 46, 46>>

\* the code units String.prototype.trim removes: ECMAScript WhiteSpace (TAB, VT,
\* FF, ZWNBSP and the Unicode space separators) and LineTerminator (LF, CR, LS, PS)
WhiteSpace == {9, 10, 11, 12, 13, 32, 160, 5760} \cup (8192 .. 8202) \cup
              {8232, 8233, 8239, 8287, 12288, 65279}

InitialConfig ==
    [donutColor |-> 16711680,
     textColor |-> 16777215,
     \* 'Hello :)'
     textValue |-> <<72, 101, 108, 108, 111, 32, 58, 41>>]

----------------------------------------------------------------------------
(* String.prototype.trim *)

RECURSIVE TrimLeft(_)
TrimLeft(s) ==
    IF s # <<>> /\ Head(s) \in WhiteSpace THEN TrimLeft(Tail(s)) ELSE s

RECURSIVE TrimRight(_)
TrimRight(s) ==
    IF s # <<>> /\ s[Len(s)] \in WhiteSpace
    THEN TrimRight(SubSeq(s, 1, Len(s) - 1))
    ELSE s

Trim(s) == TrimRight(TrimLeft(s))

----------------------------------------------------------------------------
(* createTextGeometry *)

\* mutant: the placeholder only for the empty string
createTextGeometryNoTrim(text, font) ==
    LET geometryText == IF text = <<>> THEN Placeholder ELSE text
    IN  [type |-> "TextGeometry", text |-> geometryText, font |-> font,
         centered |-> TRUE, disposed |-> FALSE]

createTextGeometry(text, font) ==
    LET geometryText == IF Trim(text) = <<>> THEN Placeholder ELSE text
    IN  [type |-> "TextGeometry", text |-> geometryText, font |-> font,
         centered |-> TRUE, disposed |-> FALSE]

\* the material of setupSceneContent: matcap when matcapTexture is truthy
NewMaterial(texture, color) ==
    IF texture # Null
    THEN [type |-> "MeshMatcapMaterial", color |-> color]
    ELSE [type |-> "MeshBasicMaterial", color |-> color]

----------------------------------------------------------------------------
(* setupSceneContent *)

\* the donut created by iteration i - 1 of the loop (i = 1 .. 100), which takes
\* nine values of Math.random in the order of the calls
NewDonut(random, build, i) ==
    LET r(j) == Rnd(random.seed, random.used + 9 * (i - 1) + j)
    IN  [id |-> <<"donut", build, i>>,
         geometry |-> [type |-> "TorusGeometry", id |-> build],
         material |-> NewMaterial(matcapTexture, DonutColors[((i - 1) % Len(DonutColors)) + 1]),
         position |-> <<Centered(r(0)) * 15 * 100,
                        Centered(r(1)) * 15 * 100,
                        Centered(r(2)) * 15 * 100>>,
         \* an angle is random * (PI / RandomDenominator) + time * (0.5 / 60)
         rotation |-> <<[random |-> r(3), time |-> 0],
                        [random |-> r(4), time |-> 0]>>,
         \* scale in units of 1 / (10 * RandomDenominator)
         scale |-> 7 * r(5) + 3 * RandomDenominator,
         velocity |-> <<Centered(r(6)) * 2, Centered(r(7)) * 2, Centered(r(8)) * 2>>,
         \* per axis: 1 when the double of a position on the boundary is a
         \* rounding error beyond it, 0 otherwise
         rounding |-> <<0, 0, 0>>]

NewDonuts(random, build) == [i \in 1 .. DonutCount |-> NewDonut(random, build, i)]

\* gui.folders.forEach(folder => folder.destroy()): destroy splices the folder
\* out of the array forEach is walking, so every second folder is skipped
DestroyFolders(folders) == [i \in 1 .. (Len(folders) \div 2) |-> folders[2 * i]]

\* the donuts of `meshes` as scene children
DonutIds(meshes) == {meshes[i].id : i \in 1 .. Len(meshes)}

\* mutant: the previous donuts stay in the scene
SceneAfterSetupKeepingOld(children, textId, old, new) ==
    (children \cup {textId}) \cup DonutIds(new)

\* the scene after setupSceneContent: the text mesh added, the previous donuts
\* removed, the new donuts added
SceneAfterSetup(children, textId, old, new) ==
    ((children \cup {textId}) \ DonutIds(old)) \cup DonutIds(new)

\* everything setupSceneContent does except the value of donutMeshes
SetupScene ==
    LET build == builds + 1
        textMaterial == NewMaterial(matcapTexture, config.textColor)
        font == [type |-> "Font"]
    IN  /\ builds' = build
        /\ loadedFont' = font
        /\ textMesh' = [type |-> "Mesh", id |-> <<"text", build, 0>>,
                        geometry |-> createTextGeometry(config.textValue, font),
                        material |-> textMaterial]
        /\ scene' = SceneAfterSetup(scene, <<"text", build, 0>>, donutMeshes,
                                     NewDonuts(rng, build))
        /\ undisposed' = [textGeometry |-> undisposed.textGeometry + 1,
                          textMaterial |-> undisposed.textMaterial + 1,
                          torusGeometry |-> undisposed.torusGeometry + 1,
                          donutMaterial |-> undisposed.donutMaterial + DonutCount]
        /\ rng' = [rng EXCEPT !.used = @ + 9 * DonutCount]
        /\ guiFolders' = DestroyFolders(guiFolders) \o <<"Text", "Donuts">>

----------------------------------------------------------------------------
(* handleResize *)

handleResize ==
    /\ sizes' = [width |-> window'.innerWidth, height |-> window'.innerHeight]
    /\ camera' = [aspect |-> <<window'.innerWidth, window'.innerHeight>>]
    /\ renderer' = [renderer EXCEPT
                        !.size = <<window'.innerWidth, window'.innerHeight>>,
                        !.pixelRatio = Min(window'.devicePixelRatio, 2)]

----------------------------------------------------------------------------
(* animate *)

\* clock.getDelta(): the first call starts the clock and returns 0
GetDelta(c, elapsed) == IF c.running THEN elapsed ELSE 0

\* mutant: reflects already on the boundary
BounceAtBoundary(position, rounding, velocity) ==
    IF Abs(position) >= Boundary THEN velocity * (-1) ELSE velocity

\* Math.abs(position) > boundary on the double: the fixed-point value is beyond
\* the boundary, or on it with a rounding error beyond
Beyond(position, rounding) ==
    Abs(position) > Boundary \/ (Abs(position) = Boundary /\ rounding = 1)

\* one velocity component after the boundary check on the moved position
Bounce(position, rounding, velocity) ==
    IF Beyond(position, rounding) THEN velocity * (-1) ELSE velocity

\* the two values of Math.random (numerators) that gave the donut its position
\* and its velocity on an axis
Origin(seed, donut, a) ==
    LET first == 9 * (DonutCount * (donut.id[2] - 1) + (donut.id[3] - 1))
    IN  <<Rnd(seed, first + a - 1), Rnd(seed, first + 6 + a - 1)>>

\* the origins of the axes that a tick of deltaTime moves exactly onto the boundary
Landing(seed, meshes, deltaTime) ==
    {Origin(seed, meshes[i], a) : <<i, a>> \in
        {ia \in (1 .. Len(meshes)) \X (1 .. 3) :
            Abs(meshes[ia[1]].position[ia[2]]
                + meshes[ia[1]].velocity[ia[2]] * deltaTime) = Boundary}}

\* the rounding outcomes of one tick: for each such origin, whether the double
\* ends up beyond the boundary (1) or not (0)
Roundings(seed, meshes, deltaTime) == [Landing(seed, meshes, deltaTime) -> {0, 1}]

\* the body of donutMeshes.forEach in animate, deltaTime in frame units
AnimateDonut(seed, donut, deltaTime, round) ==
    LET moved == [a \in 1 .. 3 |-> donut.position[a] + donut.velocity[a] * deltaTime]
        rounded == [a \in 1 .. 3 |->
                        IF Abs(moved[a]) = Boundary
                        THEN round[Origin(seed, donut, a)]
                        ELSE 0]
    IN  [donut EXCEPT
            !.rotation = [a \in 1 .. 2 |->
                            [donut.rotation[a] EXCEPT !.time = @ + deltaTime]],
            !.position = moved,
            !.rounding = rounded,
            !.velocity = [a \in 1 .. 3 |->
                            Bounce(moved[a], rounded[a], donut.velocity[a])]]

AnimateDonuts(seed, meshes, deltaTime, round) ==
    [i \in 1 .. Len(meshes) |-> AnimateDonut(seed, meshes[i], deltaTime, round)]

----------------------------------------------------------------------------
(* Initial state: before the script is evaluated *)

Init ==
    /\ pc = "script"
    /\ textureLoad = "none"
    /\ matcapTexture = Null
    /\ loadedFont = Null
    /\ textMesh = Null
    /\ donutMeshes = <<>>
    /\ scene = {}
    /\ config = InitialConfig
    /\ guiFolders = <<>>
    /\ undisposed = [textGeometry |-> 0, textMaterial |-> 0,
                     torusGeometry |-> 0, donutMaterial |-> 0]
    /\ builds = 0
    /\ window \in Windows
    /\ sizes = [width |-> 0, height |-> 0]
    /\ camera = [aspect |-> <<0, 0>>]
    /\ renderer = [size |-> <<0, 0>>, pixelRatio |-> 0, frames |-> 0]
    /\ clock = [running |-> FALSE]
    /\ rng \in [seed : Seeds, used : {0}]
    /\ rafPending = FALSE
    /\ alerts = 0
    /\ console = <<>>

----------------------------------------------------------------------------
(* Actions *)

\* evaluation of the module's top level, up to and including init().
\* textureLoader.load returns a Texture at once and fetches the image later:
\*   "ok"    the image arrives,
\*   "error" the fetch fails after load has returned (no onError is passed),
\*   "threw" load or the colorSpace assignment throws; the catch block runs.
LoadScript ==
    /\ pc = "script"
    /\ \E outcome \in {"ok", "error", "threw"} :
        /\ textureLoad' = outcome
        /\ matcapTexture' = IF outcome = "threw" THEN Null
                            ELSE [type |-> "Texture", colorSpace |-> "srgb"]
        /\ console' = (IF outcome = "threw" THEN <<"warn: matcap">> ELSE <<>>)
                        \o <<"log: Initializing...">>
    /\ scene' = {<<"camera", 0, 0>>}
    /\ sizes' = [width |-> window.innerWidth, height |-> window.innerHeight]
    /\ camera' = [aspect |-> <<window.innerWidth, window.innerHeight>>]
    /\ renderer' = [size |-> <<window.innerWidth, window.innerHeight>>,
                    pixelRatio |-> Min(window.devicePixelRatio, 2),
                    frames |-> 0]
    /\ pc' = "fontLoading"
    /\ UNCHANGED <<loadedFont, textMesh, donutMeshes, config, guiFolders, undisposed,
                   builds, window, clock, rng, rafPending, alerts>>

\* the success callback of fontLoader.load: setupSceneContent, handleResize, animate
FontLoaded ==
    /\ pc = "fontLoading"
    /\ \E elapsed \in Deltas :
        LET deltaTime == GetDelta(clock, elapsed)
            built == NewDonuts(rng, builds + 1)
        IN  /\ SetupScene
            /\ \E round \in Roundings(rng.seed, built, deltaTime) :
                    donutMeshes' = AnimateDonuts(rng.seed, built, deltaTime, round)
            /\ clock' = [running |-> TRUE]
    \* handleResize() on the window as it is, then the render call of animate()
    /\ window' = window
    /\ sizes' = [width |-> window.innerWidth, height |-> window.innerHeight]
    /\ camera' = [aspect |-> <<window.innerWidth, window.innerHeight>>]
    /\ renderer' = [size |-> <<window.innerWidth, window.innerHeight>>,
                    pixelRatio |-> Min(window.devicePixelRatio, 2),
                    frames |-> renderer.frames + 1]
    /\ rafPending' = TRUE
    /\ console' = console \o <<"log: Font loaded.">>
    /\ pc' = "running"
    /\ UNCHANGED <<textureLoad, matcapTexture, config, alerts>>

\* mutant: the error callback goes on to start the render loop
FontErrorThenAnimate ==
    /\ pc = "fontLoading"
    /\ console' = console \o <<"error: Font loading error">>
    /\ alerts' = alerts + 1
    /\ pc' = "fontFailed"
    /\ renderer' = [renderer EXCEPT !.frames = @ + 1]
    /\ rafPending' = TRUE
    /\ clock' = [running |-> TRUE]
    /\ UNCHANGED <<textureLoad, matcapTexture, loadedFont, textMesh, donutMeshes, scene,
                   config, guiFolders, undisposed, builds, window, sizes, camera, rng>>

\* the error callback of fontLoader.load
FontError ==
    /\ pc = "fontLoading"
    /\ console' = console \o <<"error: Font loading error">>
    /\ alerts' = alerts + 1
    /\ pc' = "fontFailed"
    /\ UNCHANGED <<textureLoad, matcapTexture, loadedFont, textMesh, donutMeshes, scene,
                   config, guiFolders, undisposed, builds, window, sizes, camera,
                   renderer, clock, rng, rafPending>>

\* a frame callback: animate
AnimationFrame ==
    /\ rafPending
    /\ renderer.frames < MaxFrames
    /\ \E elapsed \in Deltas :
        LET deltaTime == GetDelta(clock, elapsed)
        IN  /\ \E round \in Roundings(rng.seed, donutMeshes, deltaTime) :
                    donutMeshes' = AnimateDonuts(rng.seed, donutMeshes, deltaTime, round)
            /\ clock' = [running |-> TRUE]
    /\ renderer' = [renderer EXCEPT !.frames = @ + 1]
    /\ rafPending' = TRUE
    /\ UNCHANGED <<pc, rng, textureLoad, matcapTexture, loadedFont, textMesh, scene, config,
                   guiFolders, undisposed, builds, window, sizes, camera, alerts, console>>

\* the window is resized; the listener registered by init runs handleResize
WindowResize ==
    /\ pc # "script"
    /\ \E w \in Windows : window' = w
    /\ handleResize
    /\ UNCHANGED <<pc, textureLoad, matcapTexture, loadedFont, textMesh, donutMeshes,
                   scene, config, guiFolders, undisposed, builds, clock, rng, rafPending,
                   alerts, console>>

\* the Text / Color picker: lil-gui stores the value, then calls onChange
TextColorChange ==
    /\ \E f \in 1 .. Len(guiFolders) : guiFolders[f] = "Text"
    /\ \E newColor \in Colors :
        /\ config' = [config EXCEPT !.textColor = newColor]
        /\ textMesh' = [textMesh EXCEPT !.material.color = newColor]
    /\ UNCHANGED <<pc, textureLoad, matcapTexture, loadedFont, donutMeshes, scene,
                   guiFolders, undisposed, builds, window, sizes, camera, renderer,
                   clock, rng, rafPending, alerts, console>>

\* mutant: the new geometry is assigned first, then textMesh.geometry is disposed
textValueOnChangeDisposeAfter(mesh, font, newText) ==
    IF mesh # Null /\ font # Null
    THEN [mesh |-> [mesh EXCEPT !.geometry =
                        [createTextGeometry(newText, font) EXCEPT !.disposed = TRUE]],
          undisposed |-> 0]
    ELSE [mesh |-> mesh, undisposed |-> 0]

\* the onChange callback of the Text / Content field, on the text mesh: the
\* mesh after it, and the change in the number of undisposed text geometries
\* (the old geometry is disposed unless it already was, a new one is created)
textValueOnChange(mesh, font, newText) ==
    IF mesh # Null /\ font # Null
    THEN [mesh |-> [mesh EXCEPT !.geometry = createTextGeometry(newText, font)],
          undisposed |-> (IF mesh.geometry.disposed THEN 0 ELSE -1) + 1]
    ELSE [mesh |-> mesh, undisposed |-> 0]

\* the Text / Content field: lil-gui stores the value, then calls onChange
TextValueChange ==
    /\ \E f \in 1 .. Len(guiFolders) : guiFolders[f] = "Text"
    /\ \E newText \in Texts :
        LET after == textValueOnChange(textMesh, loadedFont, newText)
        IN  /\ config' = [config EXCEPT !.textValue = newText]
            /\ textMesh' = after.mesh
            /\ undisposed' = [undisposed EXCEPT !.textGeometry = @ + after.undisposed]
    /\ UNCHANGED <<pc, textureLoad, matcapTexture, loadedFont, donutMeshes, scene,
                   guiFolders, builds, window, sizes, camera, renderer, clock, rng,
                   rafPending, alerts, console>>

\* mutant: only the first donut is coloured
donutColorOnChangeFirstOnly(meshes, newColor) ==
    [i \in 1 .. Len(meshes) |->
        IF i = 1 THEN [meshes[i] EXCEPT !.material.color = newColor] ELSE meshes[i]]

\* the onChange callback of the Donuts / Global Color picker, on donutMeshes
donutColorOnChange(meshes, newColor) ==
    [i \in 1 .. Len(meshes) |-> [meshes[i] EXCEPT !.material.color = newColor]]

\* the Donuts / Global Color picker: lil-gui stores the value, then calls onChange
DonutColorChange ==
    /\ \E f \in 1 .. Len(guiFolders) : guiFolders[f] = "Donuts"
    /\ \E newColor \in Colors :
        /\ config' = [config EXCEPT !.donutColor = newColor]
        /\ donutMeshes' = donutColorOnChange(donutMeshes, newColor)
    /\ UNCHANGED <<pc, textureLoad, matcapTexture, loadedFont, textMesh, scene,
                   guiFolders, undisposed, builds, window, sizes, camera, renderer,
                   clock, rng, rafPending, alerts, console>>

\* setupSceneContent called again with the loaded font (e.g. hot reload)
Reinvoke ==
    /\ pc = "running"
    /\ builds < 1 + MaxRebuilds
    /\ SetupScene
    /\ donutMeshes' = NewDonuts(rng, builds + 1)
    /\ UNCHANGED <<pc, textureLoad, matcapTexture, config, window, sizes, camera,
                   renderer, clock, rafPending, alerts, console>>

Next ==
    \/ LoadScript
    \/ FontLoaded
    \/ FontError
    \/ AnimationFrame
    \/ WindowResize
    \/ TextColorChange
    \/ TextValueChange
    \/ DonutColorChange

Spec == Init /\ [][Next]_vars

NextReinvoke == Next \/ Reinvoke

SpecReinvoke == Init /\ [][NextReinvoke]_vars

----------------------------------------------------------------------------
(* Properties *)

TextObjects == {o \in scene : o[1] = "text"}

SceneDonuts == {o \in scene : o[1] = "donut"}

Axes == 1 .. 3

\* every character of the text is white space (the empty text included)
IsBlank(text) == \A k \in 1 .. Len(text) : text[k] \in WhiteSpace

AllMaterials == {textMesh.material.type} \cup
                {donutMeshes[i].material.type : i \in 1 .. Len(donutMeshes)}

\* C1: when the font fails to load, no content is ever built (no text mesh, no
\* donut, nothing but the camera in the scene), no frame is rendered or
\* scheduled, and alert has been called exactly once; alert is called in no
\* other case.
C1_FontFailure ==
    /\ pc = "fontFailed" =>
            /\ textMesh = Null
            /\ loadedFont = Null
            /\ donutMeshes = <<>>
            /\ builds = 0
            /\ scene = {<<"camera", 0, 0>>}
            /\ renderer.frames = 0
            /\ ~rafPending
            /\ alerts = 1
    /\ pc # "fontFailed" => alerts = 0

\* C1 witness: the font has failed and the window was resized afterwards
C1_Witness ==
    /\ pc = "fontFailed"
    /\ alerts = 1
    /\ sizes.width = 1920
    /\ console = <<"log: Initializing...", "error: Font loading error">>

\* C2: when the texture fails to load, every material built by
\* setupSceneContent (the text material and the 100 donut materials) is a
\* MeshBasicMaterial.
C2_TextureFailureFallsBack ==
    (textureLoad \in {"error", "threw"} /\ textMesh # Null) =>
        AllMaterials = {"MeshBasicMaterial"}

\* C3: after every setupSceneContent, the first and any later one, donutMeshes
\* holds exactly 100 distinct donuts and the donuts in the scene are exactly
\* those; no later operation changes that.
C3_Population ==
    builds >= 1 =>
        /\ Len(donutMeshes) = 100
        /\ Cardinality(DonutIds(donutMeshes)) = 100
        /\ SceneDonuts = DonutIds(donutMeshes)

\* C3 witness: content was rebuilt, then animated, recoloured and resized
C3_Witness ==
    /\ builds = 2
    /\ renderer.frames = MaxFrames
    /\ config.donutColor # InitialConfig.donutColor
    /\ donutMeshes[1].material.color = config.donutColor
    /\ donutMeshes[1].id = <<"donut", 2, 1>>
    /\ Len(donutMeshes) = 100

\* C4: once content has been built, exactly one text object is in the scene,
\* after any sequence of setupSceneContent calls and text edits.
C4_OneTextObject ==
    builds >= 1 => Cardinality(TextObjects) = 1

\* C5: in each animate tick, for every donut and axis, the velocity component
\* is negated exactly when the absolute value of the position on that axis after
\* the movement is strictly greater than 10 (as a double: beyond 10, or on 10
\* with a rounding error beyond), and is unchanged otherwise.
C5_Reflection ==
    [][(renderer'.frames = renderer.frames + 1 /\ builds' = builds) =>
        \A i \in 1 .. Len(donutMeshes) : \A a \in Axes :
            donutMeshes'[i].velocity[a] =
                IF \/ Abs(donutMeshes'[i].position[a]) > 10 * WorldUnit
                   \/ /\ Abs(donutMeshes'[i].position[a]) = 10 * WorldUnit
                      /\ donutMeshes'[i].rounding[a] = 1
                THEN 0 - donutMeshes[i].velocity[a]
                ELSE donutMeshes[i].velocity[a]]_vars

\* C5 witness: after a tick one moving donut lies exactly on the boundary and
\* has kept its outward velocity, and another lies beyond it and has turned
C5_Witness ==
    /\ renderer.frames >= 2
    /\ \E i \in 1 .. Len(donutMeshes) : \E a \in Axes :
        /\ donutMeshes[i].position[a] = 0 - 10 * WorldUnit
        /\ donutMeshes[i].rounding[a] = 0
        /\ donutMeshes[i].velocity[a] < 0
    /\ \E i \in 1 .. Len(donutMeshes) : \E a \in Axes :
        /\ donutMeshes[i].position[a] < 0 - 10 * WorldUnit
        /\ donutMeshes[i].velocity[a] > 0

\* C6: a text colour change sets the colour of the text material and leaves
\* the donuts as they are; a donut colour change sets the colour of all 100
\* donut materials and leaves the text mesh as it is; neither changes a
\* geometry, a position, a velocity or the number of donuts.
C6_ColorChanges ==
    [][/\ config'.textColor # config.textColor =>
            /\ textMesh'.material.color = config'.textColor
            /\ textMesh' = [textMesh EXCEPT !.material.color = config'.textColor]
            /\ donutMeshes' = donutMeshes
       /\ config'.donutColor # config.donutColor =>
            /\ Len(donutMeshes') = 100
            /\ \A i \in 1 .. 100 :
                /\ donutMeshes'[i].material.color = config'.donutColor
                /\ donutMeshes'[i] =
                     [donutMeshes[i] EXCEPT !.material.color = config'.donutColor]
            /\ textMesh' = textMesh]_vars

\* C6 witness: the donuts were recoloured and the text still has its colour
C6_Witness ==
    /\ builds = 1
    /\ config.donutColor = 65280
    /\ \A i \in 1 .. Len(donutMeshes) : donutMeshes[i].material.color = 65280
    /\ Len(donutMeshes) = 100
    /\ textMesh.material.color = InitialConfig.textColor

\* C7 as stated: the text mesh's geometry is built from the placeholder when
\* the latest text value is the empty string and from the text value itself for
\* any other value, and it is centered.
C7_PlaceholderOnlyForEmpty ==
    textMesh # Null =>
        /\ textMesh.geometry.text =
             (IF config.textValue = <<>> THEN Placeholder ELSE config.textValue)
        /\ textMesh.geometry.centered

\* C7 amended: the text mesh's geometry is built from the placeholder '...'
\* when the latest text value is empty or consists of white space only, and
\* from the text value itself (untrimmed) otherwise; it is centered.
C7_PlaceholderForBlank ==
    textMesh # Null =>
        /\ textMesh.geometry.text =
             (IF IsBlank(config.textValue) THEN <<46, 46, 46>> ELSE config.textValue)
        /\ textMesh.geometry.centered
        /\ textMesh.geometry.font = loadedFont

\* C7 witness: the text was edited to a no-break space and a carriage return
\* and shows the placeholder
C7_Witness ==
    /\ textMesh # Null
    /\ config.textValue = <<160, 13>>
    /\ textMesh.geometry.text = <<46, 46, 46>>

\* C8: a re-invocation of setupSceneContent disposes the previous torus
\* geometry and the previous 100 donut materials, so at most one torus geometry
\* and 100 donut materials are undisposed at any time.
C8_RebuildReleases ==
    /\ undisposed.torusGeometry <= 1
    /\ undisposed.donutMaterial <= 100

\* C9: after any sequence of text edits exactly one undisposed text geometry
\* exists and it is the one attached to the text mesh; a text edit replaces
\* neither the text mesh nor its material.
C9_TextGeometryReleased ==
    /\ [](textMesh # Null =>
            /\ ~textMesh.geometry.disposed
            /\ undisposed.textGeometry = 1)
    /\ [][(textMesh # Null /\ config'.textValue # config.textValue) =>
            /\ textMesh'.id = textMesh.id
            /\ textMesh'.material = textMesh.material]_vars

\* C9 witness: after two text edits the mesh carries the geometry of the last
C9_Witness ==
    /\ textMesh # Null
    /\ config.textValue = <<32, 97>>
    /\ textMesh.geometry.text = <<32, 97>>
    /\ ~textMesh.geometry.disposed
    /\ undisposed.textGeometry = 1
    /\ renderer.frames >= 2

\* C10: at the end of every animate tick, a donut beyond the boundary on an
\* axis has its velocity on that axis directed back toward the interior.
C10_VelocityInward ==
    \A i \in 1 .. Len(donutMeshes) : \A a \in Axes :
        /\ donutMeshes[i].position[a] > 10 * WorldUnit => donutMeshes[i].velocity[a] < 0
        /\ donutMeshes[i].position[a] < 0 - 10 * WorldUnit => donutMeshes[i].velocity[a] > 0

====
